---------------------------- MODULE Spec2Model ----------------------------
(***************************************************************************)
(* A model of rediproxy: the LRU/TTL cache of pkg/cache (lruCache), its    *)
(* background cleanup worker, and the read-through cacheProxy of           *)
(* pkg/service.                                                            *)
(*                                                                         *)
(* Every critical section of the code (the part of a function that runs    *)
(* with lruCache's RWMutex held) is one atomic step; the steps of          *)
(* different goroutines interleave freely.  Heap objects, the items, are kept  *)
(* in `items` under an identity, because the code holds on to *item        *)
(* pointers between two critical sections.                                 *)
(***************************************************************************)
EXTENDS Integers, Sequences, FiniteSets, TLC

(***************************************************************************)
(* Bounds of the model.                                                    *)
(***************************************************************************)
Keys == {"a", "b", "c"}        \* keys the callers use
Values == {"v1", "v2"}         \* values the callers and the backing store hold
Clients == {1, 2}              \* goroutines serving requests
MaxCapacity == 2               \* capacities 1..MaxCapacity are tried
SeqCalls == 5                  \* calls of a run with one caller
ConcCalls == 4                 \* calls of a run with concurrent callers
WindowCalls == 6               \* calls of a run inside the first instants
ProxyCalls == 3                \* calls of a run of the cache proxy
HandlerCalls == 3               \* requests of a run of the HTTP handler
ProxySeqCalls == 4             \* calls of a run of the cache proxy, one caller
TrafficKeys == 21              \* keys set before the reads that go on for ever
ReclaimKeys == 17              \* keys the loop of Set calls goes through
CycleCap == 3                  \* cleanup cycles counted after the last expiry
TTL == 20                      \* the ttl the cache is built with, in clock units

\* The instants at which the clock is read: around the construction of the
\* cache, and around the expiry of what was set then.
Instants == {0, 1, 2, TTL, TTL + 1, TTL + 2}
WindowInstants == {0, 1, 2}
ExpiryInstants == {0, TTL, TTL + 1}
ReclaimInstants == {0, TTL + 1}

(***************************************************************************)
(* Configuration and constants of pkg/cache.                               *)
(***************************************************************************)
defaultWindowPercent == 5      \* 0.05, as a percentage
defaultSampleSize == 20

Nil == "nil"                       \* error value nil
ErrKeyNotFound == "ErrKeyNotFound" \* cache.ErrKeyNotFound
ErrBacking == "ErrBacking"         \* any other error of the backing client

NilElem == "nil"               \* item.element == nil
SetElem == "elem"              \* item.element points to a list element

\* one *item per call at most
AllCalls ==
    {SeqCalls, ConcCalls, WindowCalls, ProxyCalls, ProxySeqCalls, HandlerCalls,
     TrafficKeys, ReclaimKeys}
MaxCalls == CHOOSE n \in AllCalls : \A m \in AllCalls : m <= n

ItemIds == 1..MaxCalls

VARIABLES
    capacity,     \* lruCache.capacity
    ttl,          \* lruCache.ttl, in clock units
    now,          \* the clock read by time.Now()
    items,        \* the *item objects: id -> [key, value, movedAt, expiry, element, latest]
    lookupTable,  \* lruCache.lookupTable: key -> id of its *item
    list,         \* lruCache.list: ids of the items, front first
    client,       \* per request goroutine: the call in progress
    cleaner,      \* the runCleanup goroutine
    backing,      \* the backing store: key -> value, ErrKeyNotFound or ErrBacking
    budget,       \* the number of calls the callers still make
    issued,       \* the keys of the Set calls of a run of distinct keys, in order
    remember      \* whether a call keeps the record of the call before it

vars == <<capacity, ttl, now, items, lookupTable, list, client, cleaner, backing,
          budget, issued, remember>>

config == <<capacity, ttl, remember>>

\* NewLRUCache: tw := time.Duration(int(defaultWindowPercent * float64(t)))
timeWindow == (defaultWindowPercent * ttl) \div 100

(***************************************************************************)
(* Helpers on sequences and maps.                                          *)
(***************************************************************************)
Range(s) == {s[n] : n \in DOMAIN s}

\* The subsets of D that have n elements, for n <= Cardinality(D): D
\* without Cardinality(D) - n of its elements.
Subsets(D, n) ==
    LET m == Cardinality(D) - n
        Injections == {f \in [1..m -> D] :
                          \A a, b \in 1..m : a # b => f[a] # f[b]}
    IN  {D \ {f[j] : j \in 1..m} : f \in Injections}

\* list.Remove(e): unlinks e when it is an element of this list, else nothing.
ListRemove(l, i) == SelectSeq(l, LAMBDA x : x # i)

\* list.PushFront(v)
PushFront(l, i) == <<i>> \o l

\* list.Front() in the place of list.Back()
BackIsFront(l) == l[1]

\* list.Back()
Back(l) == l[Len(l)]

\* delete(m, k)
MapDelete(m, k) == [x \in DOMAIN m \ {k} |-> m[x]]

\* m[k] = v
MapPut(m, k, v) == [x \in DOMAIN m \cup {k} |-> IF x = k THEN v ELSE m[x]]

MinOf(S) == CHOOSE x \in S : \A y \in S : x <= y


(***************************************************************************)
(* The state of a call and of the cleanup worker.                          *)
(***************************************************************************)
NoRet == [value |-> "", err |-> "none"]

NoCall == [op |-> "", key |-> "", ev |-> {}]

NoReq == [method |-> "", path |-> "", key |-> ""]

NoResp == [status |-> 0, body |-> ""]

\* pc: idle | remove | move | backing | set_new | set | done | panic
\* op: Get | Set | ProxyGet;  it: the *item the call holds (0: none)
\* ev: what the call has met and done so far (coldest, hit, stale, moved,
\*     concurrent, backing, notfound, failed, set);  backingCalls: the calls
\*     of backingClient.Get the call has made;  prev: op, key and ev of the
\*     goroutine's previous call;  req, resp: the HTTP request the call
\*     serves and the response written to it
IdleClient ==
    [pc |-> "idle", op |-> "", key |-> "", val |-> "", it |-> 0,
     ret |-> NoRet, ev |-> {}, backingCalls |-> 0, prev |-> NoCall,
     req |-> NoReq, resp |-> NoResp]

\* The record of a new call, after the call cl of the same goroutine.
NewCall(cl, o, k, v) ==
    [IdleClient EXCEPT !.op = o, !.key = k, !.val = v,
                       !.prev = IF remember
                                THEN [op |-> cl.op, key |-> cl.key, ev |-> cl.ev]
                                ELSE NoCall]

\* pc: cycle | sweep | remove;  keys: the sample;  todo: the keys of the
\* sample the running range loop has not visited yet;  cycles, n0: the
\* cycles begun since the callers went quiet with every entry expired, and
\* the size of the index when the first of them began;  fresh, drawn:
\* whether the running cycle began with getRandomKeys, and the number of
\* keys the sample held when it was drawn
InitCleaner ==
    [pc |-> "cycle", keys |-> {}, todo |-> {}, it |-> 0, cycles |-> 0, n0 |-> 0,
     fresh |-> FALSE, drawn |-> 0]

Store == [items |-> items, list |-> list, lookupTable |-> lookupTable]

\* The *item objects something still refers to; the others are garbage.
LiveIds(cl, cn, st) ==
    (Range(st.list) \cup Range(st.lookupTable)
        \cup {cl[c].it : c \in Clients} \cup {cn.it}
        \cup {i \in DOMAIN st.items : st.items[i].latest}) \ {0}

\* Writes the store back, dropping the garbage.
Commit(st) ==
    /\ lookupTable' = st.lookupTable
    /\ list' = st.list
    /\ items' = [i \in LiveIds(client', cleaner', st) \cap DOMAIN st.items
                    |-> st.items[i]]

NewId == MinOf(ItemIds \ DOMAIN items)

(***************************************************************************)
(* pkg/cache: the functions of lruCache.                                   *)
(***************************************************************************)
\* it.expiry.Sub(now) < 0
Expired(i) == items[i].expiry - now < 0

\* now.Sub(it.movedAt) > lc.timeWindow
NeedsMove(i) == now - items[i].movedAt > timeWindow

\* searchItem, under RLock: (item, move, del, err)
searchItem(key) ==
    IF key \notin DOMAIN lookupTable
    THEN [it |-> 0, move |-> FALSE, del |-> FALSE, err |-> ErrKeyNotFound]
    ELSE LET i == lookupTable[key] IN
         IF Expired(i)
         THEN [it |-> i, move |-> FALSE, del |-> TRUE, err |-> Nil]
         ELSE IF NeedsMove(i)
         THEN [it |-> i, move |-> TRUE, del |-> FALSE, err |-> Nil]
         ELSE [it |-> i, move |-> FALSE, del |-> FALSE, err |-> Nil]

isFull == Cardinality(DOMAIN lookupTable) = capacity

\* removeItem without the delete of the key
removeItemKeepsKey(i) ==
    IF items[i].element = NilElem
    THEN Store
    ELSE [items |-> [items EXCEPT ![i].element = NilElem],
          list |-> ListRemove(list, i),
          lookupTable |-> lookupTable]

\* removeItem, under Lock
removeItem(i) ==
    IF items[i].element = NilElem
    THEN Store
    ELSE [items |-> [items EXCEPT ![i].element = NilElem],
          list |-> ListRemove(list, i),
          lookupTable |-> MapDelete(lookupTable, items[i].key)]

\* moveItemFront that also extends the life of the item it moves.
moveItemFrontExtends(i) ==
    IF items[i].element = NilElem
    THEN Store
    ELSE [items |-> [items EXCEPT ![i].movedAt = now, ![i].element = SetElem,
                                  ![i].expiry = now + ttl],
          list |-> PushFront(ListRemove(list, i), i),
          lookupTable |-> lookupTable]

\* moveItemFront, under Lock
moveItemFront(i) ==
    IF items[i].element = NilElem
    THEN Store
    ELSE [items |-> [items EXCEPT ![i].movedAt = now, ![i].element = SetElem],
          list |-> PushFront(ListRemove(list, i), i),
          lookupTable |-> lookupTable]

\* Set, lines 130-134: the key Set deletes from the index when the cache is full
EvictedKey == items[Back(list)].key

\* Set, lines 127-139, under Lock, for the new item i
Set(i) ==
    LET tbl == IF isFull THEN MapDelete(lookupTable, EvictedKey) ELSE lookupTable
        lst == IF isFull THEN ListRemove(list, Back(list)) ELSE list
    IN  [items |-> [items EXCEPT ![i].element = SetElem],
         list |-> PushFront(lst, i),
         lookupTable |-> MapPut(tbl, items[i].key, i)]

\* Set, lines 120-125: the new item
NewItem(k, v) ==
    [key |-> k, value |-> v, movedAt |-> now, expiry |-> now + ttl,
     element |-> NilElem, latest |-> FALSE, stale |-> FALSE]

\* getRandomKeys(s), under RLock: the samples the map traversal can return
getRandomKeys(s) ==
    IF Cardinality(DOMAIN lookupTable) <= s
    THEN {DOMAIN lookupTable}
    ELSE Subsets(DOMAIN lookupTable, s)

(***************************************************************************)
(* Book-keeping for the properties (no effect on the code's state):        *)
(* items[i].latest marks the item of the last completed Set of its key,    *)
(* until a capacity eviction deletes the key or the item is removed as     *)
(* expired; items[i].stale marks an item a lookup has found expired.       *)
(***************************************************************************)
Unmark(its, K) ==
    [i \in DOMAIN its |->
        IF its[i].key \in K THEN [its[i] EXCEPT !.latest = FALSE] ELSE its[i]]

MarkSet(st, i, evicted) ==
    [st EXCEPT !.items =
        [Unmark(st.items, evicted \cup {st.items[i].key})
            EXCEPT ![i].latest = TRUE]]

MarkRemoved(st, i) ==
    [st EXCEPT !.items = [st.items EXCEPT ![i].latest = FALSE]]

\* The entry of key k is the least recently promoted entry of the index.
Coldest(k) ==
    /\ k \in DOMAIN lookupTable
    /\ \A j \in DOMAIN lookupTable \ {k} :
          items[lookupTable[k]].movedAt < items[lookupTable[j]].movedAt

MarkStale(st, i) ==
    [st EXCEPT !.items = [st.items EXCEPT ![i].stale = TRUE]]

(***************************************************************************)
(* pkg/service: cacheProxy.Get, between its calls.                         *)
(***************************************************************************)
Returned(cl, val, err) ==
    [cl EXCEPT !.pc = "done", !.ret = [value |-> val, err |-> err]]

\* cacheProxy.Get without the return of the value the cache has.
ProxyAlwaysToBacking(cl, val, err) == [cl EXCEPT !.pc = "backing"]

\* cacheProxy.Get, lines 69-72: after lruCache.Get returned (val, err)
ProxyAfterCache(cl, val, err) ==
    IF err = Nil
    THEN Returned(cl, val, Nil)
    ELSE [cl EXCEPT !.pc = "backing"]

\* cacheProxy.Get that reports every error of the backing store as not-found.
ProxyMasksFailure(cl, val, err) ==
    IF err # Nil
    THEN Returned(cl, "", ErrKeyNotFound)
    ELSE [cl EXCEPT !.pc = "set_new", !.val = val]

\* cacheProxy.Get that also stores what a not-found answer came with.
ProxyCachesNotFound(cl, val, err) ==
    IF err # Nil /\ err # ErrKeyNotFound
    THEN Returned(cl, "", err)
    ELSE [cl EXCEPT !.pc = "set_new", !.val = val]

\* cacheProxy.Get, lines 75-78: after backingClient.Get returned (val, err)
ProxyAfterBacking(cl, val, err) ==
    IF err # Nil
    THEN Returned(cl, "", err)
    ELSE [cl EXCEPT !.pc = "set_new", !.val = val]

\* redisClient.Get: the value of the key, or the error
backingGet(k) ==
    IF backing[k] \in {ErrKeyNotFound, ErrBacking}
    THEN [value |-> "", err |-> backing[k]]
    ELSE [value |-> backing[k], err |-> Nil]

\* lruCache.Get returns (val, err) to its caller
GetReturns(cl, val, err) ==
    IF cl.op = "ProxyGet"
    THEN ProxyAfterCache(cl, val, err)
    ELSE Returned(cl, val, err)

(***************************************************************************)
(* Initial states.                                                         *)
(***************************************************************************)
EmptyMap == [x \in {} |-> 0]

InitEmpty ==
    /\ ttl = TTL
    /\ now = 0
    /\ items = EmptyMap
    /\ lookupTable = EmptyMap
    /\ list = <<>>
    /\ client = [c \in Clients |-> IdleClient]
    /\ cleaner = InitCleaner
    /\ issued = <<>>

InitStore ==
    /\ capacity \in 1..MaxCapacity
    /\ InitEmpty

NoBacking == [k \in Keys |-> ErrKeyNotFound]

(***************************************************************************)
(* Steps of the request goroutines.                                        *)
(***************************************************************************)
Tick(I) ==
    /\ now' \in {t \in I : t > now}
    /\ UNCHANGED <<config, issued, items, lookupTable, list, client, cleaner, backing,
                   budget>>

\* The goroutine has no call in progress: it can make the next one.
Ready(c) == client[c].pc \in {"idle", "done"}

\* Another goroutine is in a call of the same operation and key that has
\* missed in the cache and not yet populated it.
MissInProgress(c, o, k) ==
    \E d \in Clients \ {c} :
        /\ o = "ProxyGet"
        /\ client[d].op = o
        /\ client[d].key = k
        /\ client[d].pc \in {"remove", "backing", "set_new", "set"}

\* lruCache.Get, lines 103-105 and 114: the call and searchItem, in the
\* service of the HTTP request q (NoReq: of none)
GetStep(c, k, o, q) ==
    /\ Ready(c)
    /\ LET r == searchItem(k)
           cold == IF isFull /\ Coldest(k) THEN {"coldest"} ELSE {}
           conc == IF (r.err # Nil \/ r.del) /\ MissInProgress(c, o, k)
                   THEN {"concurrent"} ELSE {}
           cl == [NewCall(client[c], o, k, "") EXCEPT !.it = r.it,
                                                      !.ev = cold \cup conc,
                                                      !.req = q]
       IN  /\ client' = [client EXCEPT ![c] =
                IF r.err # Nil THEN GetReturns(cl, "", r.err)
                ELSE IF r.del
                THEN [cl EXCEPT !.pc = "remove", !.ev = @ \cup {"stale"}]
                ELSE IF r.move
                THEN [cl EXCEPT !.pc = "move", !.ev = @ \cup {"hit"}]
                ELSE GetReturns([cl EXCEPT !.ev = @ \cup {"hit"}],
                                items[r.it].value, Nil)]
           /\ UNCHANGED <<config, issued, now, cleaner, backing>>
           /\ Commit(IF r.err = Nil /\ r.del THEN MarkStale(Store, r.it) ELSE Store)

\* GetStep as one of the calls the run is bounded to
GetFor(c, k, o, q) ==
    /\ budget > 0
    /\ budget' = budget - 1
    /\ GetStep(c, k, o, q)

\* lruCache.Get, lines 103-105 and 114: the call and searchItem
GetCall(c, k, o) == GetFor(c, k, o, NoReq)

\* lruCache.Get, lines 106-108: removeItem and the not-found return
GetRemove(c) ==
    /\ client[c].pc = "remove"
    /\ client' = [client EXCEPT ![c] = GetReturns(@, "", ErrKeyNotFound)]
    /\ UNCHANGED <<config, issued, now, cleaner, backing, budget>>
    /\ Commit(MarkRemoved(removeItem(client[c].it), client[c].it))

\* lruCache.Get, lines 111-114: moveItemFront and the return of the value
GetMove(c) ==
    /\ client[c].pc = "move"
    /\ LET i == client[c].it
           ev == IF items[i].element = NilElem THEN {} ELSE {"moved"}
       IN  /\ client' = [client EXCEPT ![c] =
                GetReturns([@ EXCEPT !.ev = @ \cup ev], items[i].value, Nil)]
           /\ UNCHANGED <<config, issued, now, cleaner, backing, budget>>
           /\ Commit(moveItemFront(i))

\* The new item of Set joins the heap.
Allocate(c, cl, k, v) ==
    /\ DOMAIN items # ItemIds
    /\ client' = [client EXCEPT ![c] = [cl EXCEPT !.pc = "set", !.it = NewId]]
    /\ UNCHANGED <<config, now, cleaner, backing>>
    /\ Commit([Store EXCEPT !.items =
                [i \in DOMAIN items \cup {NewId} |->
                    IF i = NewId THEN NewItem(k, v) ELSE items[i]]])

\* lruCache.Set, lines 119-125, called by a request goroutine
SetCall(c, k, v) ==
    /\ Ready(c)
    /\ budget > 0
    /\ budget' = budget - 1
    /\ UNCHANGED issued
    /\ Allocate(c, NewCall(client[c], "Set", k, v), k, v)

\* lruCache.Set, lines 119-125, of a key no Set of the run had before
FreshSetCall(c, k, v) ==
    /\ Ready(c)
    /\ budget > 0
    /\ budget' = budget - 1
    /\ k \notin Range(issued)
    /\ issued' = Append(issued, k)
    /\ Allocate(c, NewCall(client[c], "Set", k, v), k, v)

\* lruCache.Set, lines 127-140
SetCommit(c) ==
    /\ client[c].pc = "set"
    /\ UNCHANGED <<config, issued, now, cleaner, backing, budget>>
    /\ IF isFull /\ list = <<>>
       THEN \* lc.list.Back() is nil: the call panics
            /\ client' = [client EXCEPT ![c].pc = "panic"]
            /\ Commit(Store)
       ELSE /\ client' = [client EXCEPT ![c] =
                IF @.op = "ProxyGet"
                THEN Returned([@ EXCEPT !.ev = @ \cup {"set"}], @.val, Nil)
                ELSE [@ EXCEPT !.pc = "done"]]
            /\ Commit(MarkSet(Set(client[c].it), client[c].it,
                              IF isFull THEN {EvictedKey} ELSE {}))

\* Book-keeping: the call of another goroutine, of the same key and
\* concurrent with the call of c, has already looked the key up in the
\* backing store.
ReadsAfterOther(c) ==
    \E d \in Clients \ {c} :
        /\ client[d].op = "ProxyGet"
        /\ client[d].key = client[c].key
        /\ "backing" \in client[d].ev
        /\ client[d].pc \in {"set_new", "set", "done"}
        /\ "concurrent" \in (client[c].ev \cup client[d].ev)

\* cacheProxy.Get, lines 75-78: the lookup in the backing store
ProxyBacking(c) ==
    /\ client[c].pc = "backing"
    /\ LET r == backingGet(client[c].key)
           met == (IF r.err = Nil THEN {"backing"}
                   ELSE IF r.err = ErrKeyNotFound THEN {"backing", "notfound"}
                   ELSE {"backing", "failed"})
                  \cup (IF ReadsAfterOther(c) THEN {"second"} ELSE {})
       IN  client' = [client EXCEPT ![c] =
                ProxyAfterBacking([@ EXCEPT !.ev = @ \cup met,
                                            !.backingCalls = @ + 1],
                                  r.value, r.err)]
    /\ UNCHANGED <<config, issued, now, items, lookupTable, list, cleaner,
                   backing, budget>>

\* The backing store changes: a key gets a value or loses it, the store
\* fails or recovers.
BackingChange(k, v) ==
    /\ backing[k] # v
    /\ backing' = [backing EXCEPT ![k] = v]
    /\ UNCHANGED <<config, issued, now, items, lookupTable, list, client,
                   cleaner, budget>>

\* cacheProxy.Get, line 81, and lruCache.Set, lines 119-125
ProxySet(c) ==
    /\ client[c].pc = "set_new"
    /\ UNCHANGED <<issued, budget>>
    /\ Allocate(c, client[c], client[c].key, client[c].val)

(***************************************************************************)
(* pkg/api: ProxyHandler.                                                  *)
(***************************************************************************)
apiPathCache == "/cache"

StatusOK == 200
StatusNoContent == 204
StatusBadRequest == 400
StatusNotFound == 404
StatusInternalServerError == 500

\* http.NotFound
NotFoundResponse == [status |-> StatusNotFound, body |-> "404 page not found"]

\* handleGetRequest that reports every error as an internal error.
handleResultAllErrors(val, err) ==
    IF err # Nil
    THEN [status |-> StatusInternalServerError, body |-> ""]
    ELSE [status |-> StatusOK, body |-> val]

\* handleGetRequest, lines 50-58: the response to what proxyService.Get
\* returned
handleResult(val, err) ==
    IF err = ErrKeyNotFound
    THEN [status |-> StatusNoContent, body |-> ""]
    ELSE IF err # Nil
    THEN [status |-> StatusInternalServerError, body |-> ""]
    ELSE [status |-> StatusOK, body |-> val]

\* The goroutine has no request in progress: it can serve the next one.
Served(c) == Ready(c) /\ (client[c].req = NoReq \/ client[c].resp # NoResp)

\* ServeHTTP, lines 33-40, and handleGetRequest, lines 43-49: the request
\* with method m, path p and query parameter key k, up to the searchItem of
\* the proxy's lruCache.Get
ServeHTTP(c, m, p, k) ==
    /\ Served(c)
    /\ LET q == [method |-> m, path |-> p, key |-> k]
       IN  IF m = "GET" /\ p = apiPathCache /\ k # ""
           THEN GetFor(c, k, "ProxyGet", q)
           ELSE /\ budget > 0
                /\ budget' = budget - 1
                /\ client' = [client EXCEPT ![c] =
                      [NewCall(@, "", "", "") EXCEPT
                          !.pc = "done", !.req = q,
                          !.resp = IF m = "GET" /\ p = apiPathCache
                                   THEN [status |-> StatusBadRequest, body |-> ""]
                                   ELSE NotFoundResponse]]
                /\ UNCHANGED <<config, issued, now, cleaner, backing>>
                /\ Commit(Store)

\* handleGetRequest, lines 50-58, after proxyService.Get has returned
WriteResponse(c) ==
    /\ client[c].pc = "done"
    /\ client[c].req # NoReq
    /\ client[c].resp = NoResp
    /\ client' = [client EXCEPT ![c].resp = handleResult(client[c].ret.value,
                                                   client[c].ret.err)]
    /\ UNCHANGED <<config, issued, now, items, lookupTable, list, cleaner,
                   backing, budget>>

(***************************************************************************)
(* Steps of the runCleanup goroutine.                                      *)
(***************************************************************************)
\* No call is in progress and none will be made.
Quiet == budget = 0 /\ \A c \in Clients : client[c].pc \in {"idle", "done", "panic"}

AllExpired == \A k \in DOMAIN lookupTable : Expired(lookupTable[k])

\* Book-keeping: the cycle that begins is counted.
CountCycle(cn) ==
    IF remember /\ Quiet /\ AllExpired
    THEN [cn EXCEPT !.cycles = IF @ < CycleCap THEN @ + 1 ELSE @,
                    !.n0 = IF cn.cycles = 0
                           THEN Cardinality(DOMAIN lookupTable) ELSE @]
    ELSE [cn EXCEPT !.cycles = 0, !.n0 = 0]

\* The comparison of runCleanup the other way round.
KeepsSampleWhenSmall == 100 * Cardinality(cleaner.keys) <= 75 * defaultSampleSize

\* runCleanup, lines 219-224: the sample is kept while it holds more than
\* three quarters of a full sample
KeepsSample == ~(100 * Cardinality(cleaner.keys) <= 75 * defaultSampleSize)

\* runCleanup, lines 219-224: after the range loop of removeStaleData and
\* the sleep, the sample of the next cycle
CleanupCycle ==
    /\ \/ cleaner.pc = "cycle"
       \/ cleaner.pc = "sweep" /\ cleaner.todo = {}
    /\ \E S \in (IF KeepsSample THEN {cleaner.keys}
                 ELSE getRandomKeys(defaultSampleSize)) :
          cleaner' = [CountCycle(cleaner) EXCEPT
                         !.pc = "sweep", !.keys = S, !.todo = S,
                         !.fresh = ~KeepsSample,
                         !.drawn = IF KeepsSample THEN @ ELSE Cardinality(S)]
    /\ UNCHANGED <<config, issued, now, items, lookupTable, list, client, backing,
                   budget>>

\* removeStaleData, lines 231-239: one key of the range loop
CleanupSearch(k) ==
    /\ cleaner.pc = "sweep"
    /\ k \in cleaner.todo
    /\ LET r == searchItem(k)
           cn == [cleaner EXCEPT !.todo = @ \ {k}]
       IN  /\ cleaner' =
                IF r.err # Nil THEN [cn EXCEPT !.keys = @ \ {k}]
                ELSE IF r.del THEN [cn EXCEPT !.keys = @ \ {k}, !.it = r.it,
                                              !.pc = "remove"]
                ELSE cn
           /\ UNCHANGED <<config, issued, now, client, backing, budget>>
           /\ Commit(IF r.err = Nil /\ r.del THEN MarkStale(Store, r.it) ELSE Store)

\* removeStaleData, line 240
CleanupRemove ==
    /\ cleaner.pc = "remove"
    /\ cleaner' = [cleaner EXCEPT !.pc = "sweep", !.it = 0]
    /\ UNCHANGED <<config, issued, now, client, backing, budget>>
    /\ Commit(MarkRemoved(removeItem(cleaner.it), cleaner.it))

Cleanup ==
    \/ CleanupCycle
    \/ \E k \in cleaner.todo : CleanupSearch(k)
    \/ CleanupRemove

(***************************************************************************)
(* The cache under the direct Get and Set calls of concurrent callers and  *)
(* the cleanup worker.                                                     *)
(***************************************************************************)
ConcKeys == {"a", "b"}
ConcValues == {"v1"}

Init ==
    /\ InitStore
    /\ backing = NoBacking
    /\ budget = ConcCalls
    /\ remember = FALSE

Next ==
    \/ Tick(ExpiryInstants)
    \/ \E c \in Clients, k \in ConcKeys : GetCall(c, k, "Get")
    \/ \E c \in Clients : GetRemove(c)
    \/ \E c \in Clients : GetMove(c)
    \/ \E c \in Clients, k \in ConcKeys, v \in ConcValues : SetCall(c, k, v)
    \/ \E c \in Clients : SetCommit(c)
    \/ Cleanup

Spec == Init /\ [][Next]_vars

(***************************************************************************)
(* The cache under the direct Get and Set calls of one caller.             *)
(***************************************************************************)
\* every key can be set, and one of them can be set to two values
SeqSets == (Keys \X {"v1"}) \cup {<<"a", "v2">>}

InitSeq ==
    /\ InitStore
    /\ backing = NoBacking
    /\ budget = SeqCalls
    /\ remember = TRUE

NextSeq ==
    \/ Tick(Instants)
    \/ \E k \in Keys : GetCall(1, k, "Get")
    \/ GetRemove(1)
    \/ GetMove(1)
    \/ \E kv \in SeqSets : SetCall(1, kv[1], kv[2])
    \/ SetCommit(1)

SpecSeq == InitSeq /\ [][NextSeq]_vars

(***************************************************************************)
(* The cache under the Set calls of one caller, all of different keys,     *)
(* before anything expires, and the cleanup worker.                        *)
(***************************************************************************)
DistinctKeys == Keys \cup {"d"}

InitDistinct ==
    /\ InitStore
    /\ backing = NoBacking
    /\ budget = SeqCalls
    /\ remember = FALSE

NextDistinct ==
    \/ Tick(WindowInstants)
    \/ \E k \in DistinctKeys, v \in Values : FreshSetCall(1, k, v)
    \/ SetCommit(1)
    \/ CleanupCycle
    \/ \E k \in cleaner.todo : CleanupSearch(k)

SpecDistinct == InitDistinct /\ [][NextDistinct]_vars

(***************************************************************************)
(* The cache under the direct Get and Set calls of one caller, before       *)
(* anything expires: the clock stays around the promotion window.          *)
(***************************************************************************)
InitWindow ==
    /\ InitStore
    /\ backing = NoBacking
    /\ budget = WindowCalls
    /\ remember = TRUE

NextWindow ==
    \/ Tick(WindowInstants)
    \/ \E k \in Keys : GetCall(1, k, "Get")
    \/ GetMove(1)
    \/ \E k \in Keys : SetCall(1, k, "v1")
    \/ SetCommit(1)

SpecWindow == InitWindow /\ [][NextWindow]_vars

(***************************************************************************)
(* The cache under a loop of Set calls of the keys key(0), key(1), ... by   *)
(* one caller and then its sleep, as in TestStaleDataCleanup, and the       *)
(* cleanup worker; every goroutine is scheduled again and again.  The range *)
(* loop of removeStaleData takes the keys of its sample from either end of  *)
(* the order of the keys.                                                   *)
(***************************************************************************)
ReclaimCapacity == 100

key(i) == "key" \o ToString(i)
value(i) == "value" \o ToString(i)

InitReclaim ==
    /\ capacity = ReclaimCapacity
    /\ InitEmpty
    /\ backing = NoBacking
    /\ budget = ReclaimKeys
    /\ remember = TRUE

\* lru_test.go, lines 83-85: the next Set of the loop
LoopSet ==
    \E i \in 0..(ReclaimKeys - 1) :
        /\ i = Len(issued)
        /\ FreshSetCall(1, key(i), value(i))

LoopDone == Len(issued) = ReclaimKeys /\ client[1].pc = "done"

\* lru_test.go, line 87: the sleep after the loop, past the ttl
TestSleep == LoopDone /\ Tick(ReclaimInstants)

\* The keys of the set T with the least and with the greatest number.
Ends(T) ==
    LET N == {i \in 0..(ReclaimKeys - 1) : key(i) \in T}
    IN  {key(i) : i \in {j \in N : (\A m \in N : j <= m) \/ (\A m \in N : m <= j)}}

Reclaim ==
    \/ CleanupCycle
    \/ \E k \in Ends(cleaner.todo) : CleanupSearch(k)
    \/ CleanupRemove

NextReclaim ==
    \/ TestSleep
    \/ LoopSet
    \/ SetCommit(1)
    \/ Reclaim

SpecReclaim ==
    /\ InitReclaim
    /\ [][NextReclaim]_vars
    /\ WF_vars(TestSleep)
    /\ WF_vars(LoopSet \/ SetCommit(1))
    /\ WF_vars(Reclaim)

(***************************************************************************)
(* The cache under one caller that sets the keys key(0), key(1), ... once, *)
(* with a pause after the first, and then reads two of them again and      *)
(* again, and the cleanup worker; every goroutine is scheduled again and   *)
(* again.  The range loop of removeStaleData takes the keys of its sample  *)
(* in the order of their numbers.                                          *)
(***************************************************************************)
InitTraffic ==
    /\ capacity = ReclaimCapacity
    /\ InitEmpty
    /\ backing = NoBacking
    /\ budget = TrafficKeys
    /\ remember = FALSE

\* The next Set of the caller: the first one before the pause, the others
\* after it
TrafficSet ==
    \E i \in 0..(TrafficKeys - 1) :
        /\ i = Len(issued)
        /\ i = 0 \/ now > 0
        /\ FreshSetCall(1, key(i), value(i))

TrafficSetsDone == Len(issued) = TrafficKeys /\ client[1].pc = "done"

\* Time passes after the first Set, and after the last one.
TrafficPause ==
    /\ client[1].pc = "done"
    /\ \/ Len(issued) = 1 /\ now = 0 /\ Tick({1})
       \/ Len(issued) = TrafficKeys /\ Tick({TTL + 1})

\* The keys the caller goes on reading
TrafficReads == {key(1), key(2)}

\* A Get of the caller, after its Sets and the pause that follows them
TrafficGet ==
    /\ TrafficSetsDone
    /\ now > 1
    /\ UNCHANGED budget
    /\ \E k \in TrafficReads : GetStep(1, k, "Get", NoReq)

\* The key of the set T with the least number.
FirstKey(T) ==
    LET N == {i \in 0..(TrafficKeys - 1) : key(i) \in T}
    IN  {key(i) : i \in {j \in N : \A m \in N : j <= m}}

TrafficCleanup ==
    \/ CleanupCycle
    \/ \E k \in FirstKey(cleaner.todo) : CleanupSearch(k)
    \/ CleanupRemove

\* The next step of the caller
TrafficCaller ==
    \/ TrafficSet
    \/ SetCommit(1)
    \/ TrafficPause
    \/ TrafficGet
    \/ GetMove(1)

NextTraffic ==
    \/ TrafficCaller
    \/ TrafficCleanup

SpecTraffic ==
    /\ InitTraffic
    /\ [][NextTraffic]_vars
    /\ WF_vars(TrafficCaller)
    /\ WF_vars(TrafficCleanup)

(***************************************************************************)
(* The cache proxy under the Get calls of concurrent callers, in front of  *)
(* a backing store that has a value for a key, has none, or fails.         *)
(***************************************************************************)
ProxyKeys == {"a", "b"}

BackingStates ==
    {b \in [Keys -> {"v1", ErrKeyNotFound, ErrBacking}] :
        \A k \in Keys \ ProxyKeys : b[k] = ErrKeyNotFound}

InitProxy ==
    /\ InitStore
    /\ backing \in BackingStates
    /\ budget = ProxyCalls
    /\ remember = FALSE

NextProxy ==
    \/ Tick(ExpiryInstants)
    \/ \E c \in Clients, k \in ProxyKeys : GetCall(c, k, "ProxyGet")
    \/ \E c \in Clients : GetRemove(c)
    \/ \E c \in Clients : GetMove(c)
    \/ \E c \in Clients : ProxyBacking(c)
    \/ \E c \in Clients : ProxySet(c)
    \/ \E c \in Clients : SetCommit(c)
    \/ Cleanup

SpecProxy == InitProxy /\ [][NextProxy]_vars

(***************************************************************************)
(* The cache proxy under the Get calls of one caller, one after the other, *)
(* in front of a backing store that changes, and the cleanup worker.       *)
(***************************************************************************)
InitProxySeq ==
    /\ InitStore
    /\ backing \in BackingStates
    /\ budget = ProxySeqCalls
    /\ remember = TRUE

NextProxySeq ==
    \/ Tick(ExpiryInstants)
    \/ \E k \in ProxyKeys : GetCall(1, k, "ProxyGet")
    \/ GetRemove(1)
    \/ GetMove(1)
    \/ ProxyBacking(1)
    \/ ProxySet(1)
    \/ SetCommit(1)
    \/ \E k \in ProxyKeys, v \in {"v1", ErrKeyNotFound, ErrBacking} :
            BackingChange(k, v)
    \/ Cleanup

SpecProxySeq == InitProxySeq /\ [][NextProxySeq]_vars

(***************************************************************************)
(* The cache proxy under the Get calls of concurrent callers, in front of  *)
(* a backing store that changes, before anything expires.                  *)
(***************************************************************************)
InitProxyRace ==
    /\ InitStore
    /\ backing \in BackingStates
    /\ budget = ProxyCalls
    /\ remember = FALSE

NextProxyRace ==
    \/ \E c \in Clients, k \in ProxyKeys : GetCall(c, k, "ProxyGet")
    \/ \E c \in Clients : ProxyBacking(c)
    \/ \E c \in Clients : ProxySet(c)
    \/ \E c \in Clients : SetCommit(c)
    \/ \E k \in ProxyKeys, v \in Values \cup {ErrKeyNotFound, ErrBacking} :
            BackingChange(k, v)

SpecProxyRace == InitProxyRace /\ [][NextProxyRace]_vars

(***************************************************************************)
(* The HTTP handler in front of the cache proxy, under the requests of one *)
(* client, one after the other, and the cleanup worker.                    *)
(***************************************************************************)
Methods == {"GET", "POST"}
Paths == {"/cache", "/invalid"}
RequestKeys == {"a", ""}

InitHandler ==
    /\ InitStore
    /\ backing \in BackingStates
    /\ budget = HandlerCalls
    /\ remember = FALSE

NextHandler ==
    \/ Tick(ExpiryInstants)
    \/ \E m \in Methods, p \in Paths, k \in RequestKeys : ServeHTTP(1, m, p, k)
    \/ GetRemove(1)
    \/ GetMove(1)
    \/ ProxyBacking(1)
    \/ ProxySet(1)
    \/ SetCommit(1)
    \/ WriteResponse(1)
    \/ Cleanup

SpecHandler == InitHandler /\ [][NextHandler]_vars

(***************************************************************************)
(* Properties.                                                             *)
(***************************************************************************)
Resident == DOMAIN lookupTable

\* C1: in every reachable state the lookup index holds at most `capacity`
\* entries, whatever Set (also of a resident key), Get and cleanup steps ran.
C1_CapacityInvariant == Cardinality(Resident) <= capacity

\* C2: in every reachable state the eviction-order list holds exactly one
\* node for each entry of the lookup index and no other node: the list is
\* as long as the index is large, and its nodes are the items of the index.
C2_IndexOrderCorrespondence ==
    /\ Len(list) = Cardinality(Resident)
    /\ Range(list) = Range(lookupTable)
    /\ \A k1, k2 \in Resident : lookupTable[k1] = lookupTable[k2] => k1 = k2

\* The resident key whose Set is the oldest of the run.
OldestIssued == issued[MinOf({n \in DOMAIN issued : issued[n] \in Resident})]

\* The last n keys of the run.
LastIssued(n) == {issued[m] : m \in {x \in DOMAIN issued : x > Len(issued) - n}}

\* C3: in a run of Set calls of pairwise distinct keys by one caller, before
\* anything expires: the index never holds more than `capacity` entries; a Set
\* that finds the index at capacity removes exactly one key, the least
\* recently promoted resident one (no resident entry has an older movedAt,
\* and no resident key was set before it); and after each Set the resident
\* keys are the last `capacity` keys set (capacity 2: a, b, c leaves b and c).
C3_DistinctKeysEviction ==
    [][/\ Cardinality(Resident') <= capacity
       /\ client'[1].pc = "done" => Resident' = LastIssued(capacity)'
       /\ (client[1].pc = "set" /\ client'[1].pc = "done" /\ isFull) =>
            /\ Resident \ Resident' = {OldestIssued}
            /\ \A k \in Resident :
                 items[lookupTable[OldestIssued]].movedAt
                    <= items[lookupTable[k]].movedAt
            /\ Resident' = (Resident \ {OldestIssued}) \cup {client[1].key}
      ]_vars

\* C3, witness: more distinct keys than the capacity were set, and the first
\* of them was evicted.
C3_Witness ==
    /\ Len(issued) > capacity
    /\ client[1].pc = "done"
    /\ Cardinality(Resident) = capacity
    /\ issued[1] \notin Resident

NotFound == [value |-> "", err |-> ErrKeyNotFound]

\* The step is the lookup of a Get of goroutine c.
Lookup(c) ==
    \E k \in Keys : GetCall(c, k, "Get") \/ GetCall(c, k, "ProxyGet")

\* C4: a Get whose lookup finds the entry expired returns not-found with the
\* empty value, and once it has returned the item it found is in neither the
\* index nor the list; and no lookup of a Get succeeds on an item that a
\* lookup (of a Get or of the cleanup worker) has found expired before.
C4_StaleNeverServed ==
    [][\A c \in Clients :
        /\ (client'[c].pc = "done" /\ client'[c].op = "Get"
                /\ "stale" \in client'[c].ev) =>
             /\ client'[c].ret = NotFound
             /\ client'[c].it \notin Range(list')
             /\ client'[c].it \notin Range(lookupTable')
        /\ (Lookup(c) /\ "hit" \in client'[c].ev) =>
             ~items[client'[c].it].stale
      ]_vars

\* C4, witness: a Get that found its entry expired has returned, while
\* another call holds the same item.
C4_Witness ==
    \E c, d \in Clients :
        /\ c # d
        /\ client[c].pc = "done" /\ client[c].op = "Get"
        /\ "stale" \in client[c].ev
        /\ client[d].it = client[c].it

\* The item of the last completed Set(k, v), when it has not expired and no
\* capacity eviction has deleted k since.
LiveSet(k) ==
    {i \in DOMAIN items :
        items[i].key = k /\ items[i].latest /\ now < items[i].expiry}

\* C5: after Set(k, v) has completed, every Get(k) made before the entry
\* expires finds that entry and returns v, unless a capacity eviction has
\* deleted k in between, whatever other Get and Set calls and cleanup steps
\* interleave.
C5_LiveEntryServed ==
    [][\A c \in Clients, k \in Keys :
        GetCall(c, k, "Get") =>
            \A i \in LiveSet(k) :
                /\ client'[c].it = i
                /\ "hit" \in client'[c].ev
                /\ client'[c].pc = "done" =>
                     client'[c].ret = [value |-> items[i].value, err |-> Nil]
      ]_vars

\* The call of goroutine c that commits now is the Set of a new key, and the
\* call before it was a Get of the coldest entry of the full store that
\* returned the value, with (promoted) or without the move to the front.
SetAfterGetOfColdest(c, promoted) ==
    /\ SetCommit(c)
    /\ client[c].op = "Set"
    /\ client[c].key \notin Resident
    /\ isFull
    /\ Cardinality(Resident) >= 2
    /\ client[c].prev.op = "Get"
    /\ {"coldest", "hit"} \subseteq client[c].prev.ev
    /\ ("moved" \in client[c].prev.ev) = promoted

\* C6: a Get(k) of a valid entry no more than the promotion window after its
\* movedAt returns the value and leaves the list and the movedAt of the entry
\* as they were; and when k was the coldest entry of the full store at that
\* Get, the Set of a new key that follows it evicts k.
C6_InsideWindowNoPromotion ==
    [][\A c \in Clients :
        /\ \A k \in Keys :
             (GetCall(c, k, "Get") /\ "hit" \in client'[c].ev
                /\ ~NeedsMove(lookupTable[k])) =>
                  /\ client'[c].pc = "done"
                  /\ client'[c].ret =
                        [value |-> items[lookupTable[k]].value, err |-> Nil]
                  /\ list' = list
                  /\ lookupTable' = lookupTable
                  /\ items'[lookupTable[k]].movedAt = items[lookupTable[k]].movedAt
        /\ SetAfterGetOfColdest(c, FALSE) => client[c].prev.key \notin Resident'
      ]_vars

\* C7: a Get(k) of a valid entry more than the promotion window after its
\* movedAt moves the entry to the front of the list and sets its movedAt to
\* the current time; and when k was the coldest entry of the full store at
\* that Get, the Set of a new key that follows it leaves k resident and
\* evicts the entry that is the coldest one after the promotion.
C7_PastWindowPromotion ==
    [][\A c \in Clients :
        /\ (GetMove(c) /\ client[c].op = "Get"
              /\ items[client[c].it].element # NilElem) =>
                  /\ list'[1] = client[c].it
                  /\ items'[client[c].it].movedAt = now
                  /\ client'[c].ret =
                        [value |-> items[client[c].it].value, err |-> Nil]
        /\ SetAfterGetOfColdest(c, TRUE) =>
              /\ client[c].prev.key \in Resident'
              /\ \A j \in Resident : Coldest(j) => j \notin Resident'
      ]_vars

Ceil(n, d) == (n + d - 1) \div d

NoExpiredResident == \A k \in Resident : ~Expired(lookupTable[k])

\* A cycle of the cleanup worker begins after at least n cycles, and at
\* least one, counted from the first cycle that began with the callers
\* quiet and every entry of the index expired.
CycleAfter(n) == CleanupCycle /\ cleaner.cycles >= 1 /\ cleaner.cycles >= n

\* C8: entries are Set and then no Get or Set is issued; with the cleanup
\* worker scheduled fairly every entry is eventually removed from the index
\* after its expiry, and once all resident entries (n0 of them) are expired
\* the index is empty within ceil(n0 / sample size) cleanup cycles.
C8_ReclaimWithinSampleCycles ==
    /\ Quiet ~> NoExpiredResident
    /\ [][CycleAfter(Ceil(cleaner.n0, defaultSampleSize)) => Resident = {}]_vars

\* C8, amended: as C8, with the index empty within
\* ceil(n0 / sample size) + 1 cleanup cycles: the first cycle after the
\* expiry may go through a sample taken before the last Set calls.
C8_ReclaimWithinOneMoreCycle ==
    /\ Quiet ~> NoExpiredResident
    /\ [][CycleAfter(Ceil(cleaner.n0, defaultSampleSize) + 1) => Resident = {}]_vars

\* C8, witness: the second cycle after the expiry of all ReclaimKeys entries
\* removes an entry the first one has left.
C8_Witness ==
    /\ Quiet
    /\ cleaner.cycles = 2
    /\ cleaner.pc = "remove"
    /\ cleaner.n0 = ReclaimKeys

\* The nodes of the list whose item has key k.
Nodes(l, its, k) == {n \in 1..Len(l) : its[l[n]].key = k}

\* The Set of the proxy Get of goroutine c commits, and with it two proxy
\* Gets of the same key that missed concurrently have both populated the
\* cache: the one of c and the one of d.
SecondPopulation(c, d) ==
    /\ c # d
    /\ SetCommit(c)
    /\ client'[c].pc = "done"
    /\ client[c].op = "ProxyGet"
    /\ client[d].op = "ProxyGet"
    /\ client[d].key = client[c].key
    /\ client[d].pc = "done"
    /\ "set" \in client[d].ev
    /\ "concurrent" \in (client[c].ev \cup client[d].ev)

\* C9: when two proxy Get calls of the same key miss concurrently and each
\* fetches the value from the backing store and calls Set, then once both
\* have populated the cache the key has exactly one index entry and exactly
\* one node of the list, index and list correspond (as many nodes as
\* entries, the nodes being the items of the index), and the entry holds the
\* value that was fetched.
C9_IdempotentPopulation ==
    [][\A c, d \in Clients :
        SecondPopulation(c, d) =>
            LET k == client[c].key
            IN  /\ k \in DOMAIN lookupTable'
                /\ Cardinality(Nodes(list', items', k)) = 1
                /\ Len(list') = Cardinality(DOMAIN lookupTable')
                /\ Range(list') = Range(lookupTable')
                /\ items'[lookupTable'[k]].value = client[c].val
      ]_vars

\* C10: a proxy Get whose lruCache.Get returned a value calls neither the
\* backing store nor Set, and returns that value with no error.
C10_ProxyCacheHit ==
    \A c \in Clients :
        (client[c].op = "ProxyGet" /\ "hit" \in client[c].ev) =>
            /\ client[c].pc \in {"move", "done"}
            /\ "backing" \notin client[c].ev
            /\ "set" \notin client[c].ev
            /\ client[c].pc = "done" =>
                 client[c].ret =
                    [value |-> items[client[c].it].value, err |-> Nil]

\* C10, witness: a proxy Get has returned the value of an entry that an
\* earlier proxy Get fetched from the backing store.
C10_Witness ==
    \E c \in Clients :
        /\ client[c].op = "ProxyGet"
        /\ client[c].pc = "done"
        /\ "hit" \in client[c].ev
        /\ client[c].ret = [value |-> "v1", err |-> Nil]

\* The call of goroutine c follows a proxy Get of the same key by c in which
\* the backing store answered as the tag says (notfound, failed, or backing
\* for any answer).
AfterProxyGet(cl, tag) ==
    /\ cl.op = "ProxyGet"
    /\ cl.prev.op = "ProxyGet"
    /\ cl.prev.key = cl.key
    /\ tag \in cl.prev.ev

\* The step of goroutine c neither adds to nor removes from nor reorders the
\* cache.
StoreUnchanged == lookupTable' = lookupTable /\ list' = list /\ items' = items

\* C11: a proxy Get that misses in the cache and gets not-found from the
\* backing store returns ("", ErrKeyNotFound) after exactly one call of the
\* backing store, without a call of Set and leaving the cache as it found it
\* after the miss; the next proxy Get of that key by the caller goes to the
\* backing store again, and when the store then holds a value it returns
\* that value.
C11_NoNegativeCaching ==
    [][\A c \in Clients :
        /\ (ProxyBacking(c) /\ backing[client[c].key] = ErrKeyNotFound) =>
              /\ client'[c].pc = "done"
              /\ client'[c].ret = NotFound
              /\ client'[c].backingCalls = 1
              /\ "set" \notin client'[c].ev
              /\ StoreUnchanged
        /\ (Lookup(c) /\ AfterProxyGet(client'[c], "notfound")) =>
              client'[c].pc = "backing"
        /\ (ProxyBacking(c) /\ AfterProxyGet(client[c], "notfound")
              /\ backing[client[c].key] \in Values) =>
              /\ client'[c].pc = "set_new"
              /\ client'[c].val = backing[client[c].key]
        /\ (SetCommit(c) /\ AfterProxyGet(client[c], "notfound")) =>
              /\ client'[c].pc = "done"
              /\ client'[c].ret = [value |-> client[c].val, err |-> Nil]
      ]_vars

\* C11, witness: after a proxy Get that got not-found from the backing
\* store, the next proxy Get of the key has returned the value the store
\* holds by then.
C11_Witness ==
    \E c \in Clients :
        /\ AfterProxyGet(client[c], "notfound")
        /\ "set" \notin client[c].prev.ev
        /\ client[c].pc = "done"
        /\ client[c].ret = [value |-> "v1", err |-> Nil]

\* C12: a proxy Get that misses in the cache and gets an error other than
\* not-found from the backing store returns ("", that error) after exactly
\* one call of the backing store, without a call of Set and leaving index
\* and list as it found them after the miss; the next proxy Get of that key
\* by the caller goes to the backing store again, and when the store has
\* recovered and holds a value it returns that value and the cache holds
\* the key with that value.
C12_BackingFailureSurfaced ==
    [][\A c \in Clients :
        /\ (ProxyBacking(c)
              /\ backing[client[c].key] \notin Values \cup {ErrKeyNotFound}) =>
              /\ client'[c].pc = "done"
              /\ client'[c].ret = [value |-> "", err |-> backing[client[c].key]]
              /\ client'[c].backingCalls = 1
              /\ "set" \notin client'[c].ev
              /\ StoreUnchanged
        /\ (Lookup(c) /\ AfterProxyGet(client'[c], "failed")) =>
              client'[c].pc = "backing"
        /\ (ProxyBacking(c) /\ AfterProxyGet(client[c], "failed")
              /\ backing[client[c].key] \in Values) =>
              /\ client'[c].pc = "set_new"
              /\ client'[c].val = backing[client[c].key]
        /\ (SetCommit(c) /\ AfterProxyGet(client[c], "failed")) =>
              /\ client'[c].pc = "done"
              /\ client'[c].ret = [value |-> client[c].val, err |-> Nil]
              /\ client[c].key \in DOMAIN lookupTable'
              /\ items'[lookupTable'[client[c].key]].value = client[c].val
              /\ list'[1] = lookupTable'[client[c].key]
      ]_vars

\* C12, witness: after a proxy Get that the backing store failed, the next
\* proxy Get of the key has returned the value of the recovered store and
\* the cache holds it.
C12_Witness ==
    \E c \in Clients :
        /\ AfterProxyGet(client[c], "failed")
        /\ "set" \notin client[c].prev.ev
        /\ client[c].pc = "done"
        /\ client[c].ret = [value |-> "v1", err |-> Nil]
        /\ client[c].key \in DOMAIN lookupTable

\* C13: a proxy Get that misses in the cache and gets the value v from the
\* backing store does not return before it has called Set(k, v): it goes on
\* to Set, and returns (v, nil) when Set has put k with v into the index; in
\* a run of one caller a later proxy Get of k, made before the entry expires
\* and without a capacity eviction of k in between, finds the entry in the
\* cache and returns without a call of the backing store.
C13_ReadThroughPopulation ==
    [][\A c \in Clients :
        /\ (ProxyBacking(c) /\ backing[client[c].key] \in Values) =>
              /\ client'[c].pc = "set_new"
              /\ client'[c].val = backing[client[c].key]
        /\ ProxySet(c) =>
              /\ client'[c].pc = "set"
              /\ items'[client'[c].it].key = client[c].key
              /\ items'[client'[c].it].value = client[c].val
        /\ (SetCommit(c) /\ client[c].op = "ProxyGet") =>
              /\ client'[c].pc = "done"
              /\ client'[c].ret = [value |-> client[c].val, err |-> Nil]
              /\ "set" \in client'[c].ev
              /\ lookupTable'[client[c].key] = client[c].it
        /\ \A k \in Keys :
              (GetCall(c, k, "ProxyGet") /\ LiveSet(k) # {}) =>
                  /\ "hit" \in client'[c].ev
                  /\ client'[c].it \in LiveSet(k)
                  /\ client'[c].pc \in {"move", "done"}
        /\ (client'[c].op = "ProxyGet" /\ client'[c].pc = "done"
              /\ "hit" \in client'[c].ev) =>
                  /\ client'[c].backingCalls = 0
                  /\ client'[c].ret =
                        [value |-> items'[client'[c].it].value, err |-> Nil]
      ]_vars

\* The items of the index other than the one of key k, in the order of the
\* list l.
OthersInOrder(l, tbl, k) ==
    SelectSeq(l, LAMBDA i : \E j \in DOMAIN tbl \ {k} : tbl[j] = i)

\* C14: a Set(k, v) that finds the index with exactly `capacity` entries and
\* k among them evicts nothing: the resident keys are the same before and
\* after, every other key keeps its item, that item its fields, and the
\* other entries their order in the list; k's entry has the new value and
\* is at the front.
C14_SetResidentAtCapacity ==
    [][\A c \in Clients :
        (SetCommit(c) /\ client[c].op = "Set" /\ isFull
            /\ client[c].key \in Resident) =>
              LET k == client[c].key
              IN  /\ Resident' = Resident
                  /\ \A j \in Resident \ {k} :
                        /\ lookupTable'[j] = lookupTable[j]
                        /\ items'[lookupTable[j]] = items[lookupTable[j]]
                  /\ OthersInOrder(list', lookupTable', k)
                        = OthersInOrder(list, lookupTable, k)
                  /\ items'[lookupTable'[k]].value = client[c].val
                  /\ list'[1] = lookupTable'[k]
      ]_vars

\* C15: the expiry of an item is the time of the Set that created it plus
\* the ttl, and no step changes it afterwards: no Get, with or without the
\* move to the front, and no step of the cleanup worker; an item of the
\* index keeps its expiry for as long as it exists.
C15_ExpiryFixedAtInsertion ==
    [][/\ \A i \in DOMAIN items \cap DOMAIN items' :
            items'[i].expiry = items[i].expiry
       /\ \A i \in DOMAIN items' \ DOMAIN items :
            items'[i].expiry = now + ttl
       /\ \A k \in Resident \cap Resident' :
            lookupTable'[k] = lookupTable[k] =>
                items'[lookupTable'[k]].expiry = items[lookupTable[k]].expiry
      ]_vars

\* C15, witness: an entry of the index was moved to the front by a Get long
\* after its Set, and its expiry is still the one the Set gave it.
C15_Witness ==
    \E c \in Clients, k \in Resident :
        /\ client[c].op = "Get"
        /\ client[c].pc = "done"
        /\ "moved" \in client[c].ev
        /\ client[c].it = lookupTable[k]
        /\ items[lookupTable[k]].movedAt = TTL
        /\ items[lookupTable[k]].expiry = TTL

\* C16: the response to a GET on /cache with a non-empty key is 200 with
\* the value as body when the proxy's Get of that key returned a value, 204
\* with no body when it returned not-found, and 500 when it returned another
\* error; a GET on /cache with an empty key gets 400 and a request of any
\* other method or path gets 404, both without a call of the proxy.
C16_HandlerResultMapping ==
    \A c \in Clients :
        LET q == client[c].req
            r == client[c].resp
            e == client[c].ret.err
        IN  (q # NoReq /\ r # NoResp) =>
              IF q.method = "GET" /\ q.path = "/cache"
              THEN IF q.key # ""
                   THEN /\ client[c].op = "ProxyGet"
                        /\ client[c].key = q.key
                        /\ client[c].pc = "done"
                        /\ e = Nil =>
                             r = [status |-> 200, body |-> client[c].ret.value]
                        /\ e = ErrKeyNotFound => r = [status |-> 204, body |-> ""]
                        /\ e \notin {Nil, ErrKeyNotFound} => r.status = 500
                   ELSE /\ r.status = 400
                        /\ client[c].op = ""
                        /\ client[c].backingCalls = 0
              ELSE /\ r.status = 404
                   /\ client[c].op = ""
                   /\ client[c].backingCalls = 0

\* C16, witness: the last request of a run, a GET on /cache of key a, got
\* 200 with the value of the key as body.
C16_Witness ==
    /\ budget = 0
    /\ client[1].resp = [status |-> 200, body |-> "v1"]
    /\ client[1].req = [method |-> "GET", path |-> "/cache", key |-> "a"]

\* A cycle of the worker that follows a sweep of a sample that held keys.
NextCycle ==
    /\ CleanupCycle
    /\ cleaner.pc = "sweep"
    /\ cleaner.drawn > 0

\* The keys of the sample that its sweeps have dropped, found absent or
\* removed as expired.
Consumed == cleaner.drawn - Cardinality(cleaner.keys)

\* C17 (as stated): the worker draws a fresh sample only when more than 75%
\* of the keys of its current sample have been consumed, and keeps the sample
\* while 25% or more of its keys are left in it.
C17_ResampleWhenMostlyConsumed ==
    [][NextCycle =>
          /\ cleaner'.fresh => 4 * Consumed > 3 * cleaner.drawn
          /\ 4 * Cardinality(cleaner.keys) >= cleaner.drawn => ~cleaner'.fresh]_vars

\* C17 (amended): a cycle of the worker draws a fresh sample, of at most
\* defaultSampleSize keys of the index, exactly when the sample it swept is
\* left with at most 75% of defaultSampleSize keys, that is 15; while more
\* than 15 keys are left in the sample the next cycle sweeps the same keys.
C17_ResampleAtThreeQuartersOfFull ==
    [][CleanupCycle =>
          /\ cleaner'.fresh <=> 4 * Cardinality(cleaner.keys) <= 3 * defaultSampleSize
          /\ cleaner'.fresh =>
                /\ cleaner'.keys \subseteq DOMAIN lookupTable
                /\ Cardinality(cleaner'.keys) =
                      IF Cardinality(DOMAIN lookupTable) <= defaultSampleSize
                      THEN Cardinality(DOMAIN lookupTable) ELSE defaultSampleSize
                /\ cleaner'.drawn = Cardinality(cleaner'.keys)
          /\ ~cleaner'.fresh =>
                /\ cleaner'.keys = cleaner.keys
                /\ cleaner'.drawn = cleaner.drawn
          /\ cleaner'.todo = cleaner'.keys]_vars

\* A cycle has kept a sample of more than 15 keys, and the sweep that
\* follows has consumed keys of it: the next cycle compares what is left.
C17_Witness ==
    /\ cleaner.pc = "sweep"
    /\ ~cleaner.fresh
    /\ 4 * cleaner.drawn > 3 * defaultSampleSize
    /\ cleaner.todo = {}
    /\ Consumed > 0

\* C18: every entry the cleanup worker removes from the lookup index is
\* expired at the moment of the removal, so the worker never removes a valid
\* entry, under every interleaving with Set and Get; and a sample holds at
\* most defaultSampleSize keys.
C18_ReclaimRemovesOnlyExpired ==
    [][/\ CleanupRemove =>
             \A k \in DOMAIN lookupTable \ DOMAIN lookupTable' :
                 Expired(lookupTable[k])
       /\ CleanupCycle => Cardinality(cleaner'.keys) <= defaultSampleSize]_vars

\* Item i has been moved to the front by a Get: movedAt is no longer the
\* instant the item was made, which is expiry - ttl.
PromotedByGet(i) == items[i].movedAt # items[i].expiry - ttl

\* C19: two successive moves of one entry to the front that Get calls cause
\* are at least timeWindow apart, however many Get calls of the key run
\* at the same time.
C19_PromotionSpacing ==
    [][\A c \in Clients :
          (/\ GetMove(c)
           /\ items[client[c].it].element # NilElem
           /\ PromotedByGet(client[c].it))
          => now - items[client[c].it].movedAt >= timeWindow]_vars

\* The keys a step removes from the index.
Removed == DOMAIN lookupTable \ DOMAIN lookupTable'

\* The entry of key j has been in the index, and has not been moved, since
\* before the Set that made the entry of key r.
ColderThan(j, r) ==
    items[lookupTable[j]].movedAt < items[lookupTable[r]].expiry - ttl

\* C20: one caller.  A Set(k, v), of an absent or of a resident key, leaves
\* k's new item in the index and at the front of the list, with the value v
\* and movedAt the instant the Set read the clock; the Get(k) that follows it
\* before the item expires finds that item and its value v; and the eviction of a later Set removes
\* a key r from the index only when no other key is left there that was
\* resident, and has not been set or moved, since before the Set of r.
C20_SetMakesHottest ==
    [][/\ (SetCommit(1) /\ client[1].op = "Set") =>
             LET k == client[1].key
                 i == client[1].it
             IN  /\ client'[1].pc = "done"
                 /\ k \in DOMAIN lookupTable'
                 /\ lookupTable'[k] = i
                 /\ list'[1] = i
                 /\ items'[i].value = client[1].val
                 /\ items'[i].movedAt = items'[i].expiry - ttl
                 /\ \A r \in Removed, j \in DOMAIN lookupTable' \ {k} :
                        (j \in DOMAIN lookupTable /\ lookupTable'[j] = lookupTable[j])
                        => ~ColderThan(j, r)
       /\ \A k \in Keys :
             (/\ GetCall(1, k, "Get")
              /\ client[1].op = "Set" /\ client[1].pc = "done"
              /\ client[1].key = k
              /\ ~Expired(client[1].it))
             => /\ client'[1].it = client[1].it
                /\ items[client[1].it].value = client[1].val
                /\ \/ client'[1].ret = [value |-> client[1].val, err |-> Nil]
                   \/ client'[1].pc = "move"]_vars

\* C21: every entry of the index has its item linked in the list, so an
\* index that holds `capacity` entries comes with a list that has a back
\* node, and no Set faults on lc.list.Back().
C21_IndexEntriesLinked ==
    /\ \A k \in DOMAIN lookupTable :
          \E n \in 1..Len(list) : list[n] = lookupTable[k]
    /\ isFull => list # <<>>
    /\ \A c \in Clients : client[c].pc # "panic"

\* A Set is about to take the lock with the index at capacity, after an
\* item has been found expired and removed by removeItem.
C21_Witness ==
    /\ isFull
    /\ \E c \in Clients : client[c].pc = "set"
    /\ \E i \in DOMAIN items : items[i].stale /\ items[i].element = NilElem
    /\ Len(list) > 0

\* Item i has been evicted by a Set: its node is out of the list, and the
\* eviction, unlike removeItem, has left the element field as it was.
Evicted(i) ==
    /\ items[i].element # NilElem
    /\ \A n \in 1..Len(list) : list[n] # i

\* C22: when a Set evicts an item between the searchItem of a Get that has
\* decided to move it and that Get's moveItemFront, the moveItemFront adds
\* nothing to the list, and the evicted item is afterwards neither in the
\* index nor in the list.
C22_EvictedNotResurrected ==
    [][\A c \in Clients :
          (GetMove(c) /\ Evicted(client[c].it)) =>
              /\ list' = list
              /\ lookupTable' = lookupTable
              /\ \A n \in 1..Len(list') : list'[n] # client[c].it
              /\ \A k \in DOMAIN lookupTable' : lookupTable'[k] # client[c].it]_vars

\* The step is a removeItem(i) of an item found expired.  When an earlier
\* removeItem has taken the item out, the step changes neither the index
\* nor the list; when the item is still the entry of its key, the step
\* takes out that entry and that node and nothing else; either way the
\* item is afterwards in neither.
RemovesOnce(i) ==
    /\ items[i].element = NilElem =>
          /\ lookupTable' = lookupTable
          /\ list' = list
    /\ (/\ items[i].element # NilElem
        /\ items[i].key \in DOMAIN lookupTable
        /\ lookupTable[items[i].key] = i) =>
          /\ lookupTable' = MapDelete(lookupTable, items[i].key)
          /\ list' = ListRemove(list, i)
    /\ \A n \in 1..Len(list') : list'[n] # i
    /\ \A k \in DOMAIN lookupTable' : lookupTable'[k] # i

\* C23: when two Get calls, or a Get and the cleanup worker, have both found
\* the same item expired and both call removeItem on it, the first call
\* removes the entry and the second changes neither the index nor the list,
\* also when a proxy miss has set the key again between the two calls.
C23_RemovalIdempotent ==
    [][/\ \A c \in Clients : GetRemove(c) => RemovesOnce(client[c].it)
       /\ CleanupRemove => RemovesOnce(cleaner.it)]_vars

\* The item the other observer is about to remove has been removed by the
\* first, and a proxy miss has since set its key again.
C23_Witness ==
    \E i \in DOMAIN items :
        /\ items[i].element = NilElem
        /\ items[i].stale
        /\ \/ cleaner.pc = "remove" /\ cleaner.it = i
           \/ \E c \in Clients : client[c].pc = "remove" /\ client[c].it = i
        /\ items[i].key \in DOMAIN lookupTable
        /\ lookupTable[items[i].key] # i
        /\ \E c \in Clients : /\ client[c].op = "ProxyGet"
                               /\ client[c].pc = "done"
                               /\ "set" \in client[c].ev
                               /\ client[c].key = items[i].key

\* The keys the caller sets once and never reads or sets again.
TrafficQuietKeys == {key(i) : i \in 0..(TrafficKeys - 1)} \ TrafficReads

\* Key k has an expired entry in the index.
ExpiredResident(k) ==
    /\ k \in DOMAIN lookupTable
    /\ Expired(lookupTable[k])

BothPopulated(c, d) ==
    /\ c # d
    /\ client[c].op = "ProxyGet" /\ client[d].op = "ProxyGet"
    /\ client[c].key = client[d].key
    /\ client[c].pc = "done" /\ client[d].pc = "done"
    /\ "set" \in client[c].ev /\ "set" \in client[d].ev
    /\ "concurrent" \in (client[c].ev \cup client[d].ev)
    /\ "second" \in client[c].ev
    /\ client[c].ret.value # client[d].ret.value

\* C25: when two proxy Gets of one key miss concurrently and the value of
\* the key in the backing store changes between their two lookups there,
\* then once both calls have returned, the cache holds the value of the
\* later lookup.
C25_LatestFetchWins ==
    \A c, d \in Clients :
        BothPopulated(c, d) =>
            /\ client[c].key \in DOMAIN lookupTable
            /\ items[lookupTable[client[c].key]].value = client[c].ret.value

=============================================================================
